---- MODULE Spec2Model ----
(***************************************************************************)
(* A model of the asynchronous sonar visualisation pipeline of             *)
(* src/utils/sonar_viz.py (class PolarSonarVisualizerAsync).               *)
(*                                                                         *)
(* Threads: the main loop (submit, update_plot, close) and the daemon      *)
(* worker thread (_worker_loop).  The two queue.Queue(maxsize=1) objects   *)
(* are sequences; every queue method is one atomic step (the queue's own   *)
(* mutex), every other statement touches thread-local state only and is    *)
(* merged into the neighbouring queue step.                                *)
(*                                                                         *)
(* Numbers: _lo/_hi and pixel values are exact rationals, stored as        *)
(* integers scaled by Scale (a power of the denominator of ema_alpha), so  *)
(* the EMA is computed exactly; float rounding is not modelled.            *)
(*                                                                         *)
(* Also modelled, each with a specification of its own over the same       *)
(* variables: the beam accumulator of src/lib/custom_sensors/              *)
(* scanning_sonar.py (AccSpec), a producer that reuses the array it passed *)
(* to submit (AliasSpec), a figure window closed from outside              *)
(* (SurfaceSpec), World.list_worlds with the ScenarioConfig builder of     *)
(* src/lib/worlds.py and src/lib/scenario_builder.py (ScenarioSpec), the   *)
(* pipeline kept open under fair scheduling (LiveSpec), and the sonar      *)
(* thread of src/bluerov_test.py driving the accumulator (RovSpec).        *)
(***************************************************************************)
EXTENDS Integers, Sequences, FiniteSets, TLC

VARIABLES
    in_q,            \* self.in_q : Queue(maxsize=1) of raw frames
    out_q,           \* self.out_q: Queue(maxsize=1) of processed frames
    _running,        \* self._running
    _lo, _hi,        \* ScaleState: <<>> is None, <<v>> a value (scaled by Scale)
    ema_alpha,       \* numerator of self.ema_alpha over AlphaDen
    last_plot_time,  \* self.last_plot_time (clock ticks)
    initialized,     \* self.initialized
    mesh,            \* what the display surface shows: <<>> or a processed frame
    clock,           \* time.time(), in ticks
    mpc,             \* main thread: "idle" | "drain" | "put"   (inside submit)
    sonar,           \* submit's local variable sonar (a frame)
    wpc,             \* worker: "loop" | "get" | "norm" | "odrain" | "oput" | "done" | "crashed"
    wsonar,          \* _worker_loop's local sonar
    wu8,             \* _worker_loop's local u8
    nsub,            \* history: number of non-None frames submitted so far
    hist,            \* history record, see HistInit
    col,             \* ScanningImagingSonar.col, 0-based
    buffer,          \* ScanningImagingSonar.buffer: buffer[r][c], range x azimuth
    ahist,           \* history record of the accumulator, see AccHistInit
    overwritten,     \* history: the in-flight frame the producer wrote into after
                     \* submit returned, with the content it had at submit
    surface,         \* the figure window, see SurfaceInit
    scenario,        \* a ScenarioConfig: package_name, world, main_agent, agents
    worlds_ret,      \* what the last World.list_worlds() call returned
    sonar_stop_event,\* bluerov_test: the Event that stops sonar_worker, as is_set()
    sonar_queue,     \* bluerov_test: Queue(maxsize=1) of sonar profiles
    latest_sonar_img,\* bluerov_test: the frame shared with the main loop, or None
    rpc,             \* bluerov_test: position of the main loop
    spc,             \* position of sonar_worker
    wprofile,        \* sonar_worker: its local profile
    wimg,            \* sonar_worker: its local sonar_img
    shist            \* history record of bluerov_test, see RovHistInit

\* the visualizer and its history
pipeVars == <<in_q, out_q, _running, _lo, _hi, ema_alpha, last_plot_time, initialized,
              mesh, clock, mpc, sonar, wpc, wsonar, wu8, nsub, hist>>

\* the accumulator and its history
accVars == <<col, buffer, ahist>>

\* the sonar thread of bluerov_test and its history
rovVars == <<sonar_stop_event, sonar_queue, latest_sonar_img, rpc, spc, wprofile, wimg, shist>>

\* everything that is not part of the visualizer
extVars == <<accVars, overwritten, surface, scenario, worlds_ret, rovVars>>

vars == <<pipeVars, extVars>>

----------------------------------------------------------------------------
(* Bounds of the model *)

\* non-None frames submitted in one behaviour
MaxFrames == 3
\* clock ticks that pass after construction
MaxTicks == 2
\* 1/plot_hz, in clock ticks
Period == 2
\* normalizations applied in one behaviour of NormSpec
MaxNorm == 3

(* Program constants *)

\* Queue(maxsize=1)
QueueMaxsize == 1
\* ema_alpha=0.1 as AlphaDefault / AlphaDen
AlphaDefault == 1
AlphaDen == 10
\* the flat-scale threshold 1e-6 as 1 / EpsDen
EpsDen == 1000000

\* _lo, _hi and pixel values are stored multiplied by Scale
Scale == AlphaDen ^ (IF MaxFrames > MaxNorm THEN MaxFrames ELSE MaxNorm)

----------------------------------------------------------------------------
(* Arrays *)

None == [isNone |-> TRUE, shape |-> <<>>, data |-> <<>>]
Array(shape, data) == [isNone |-> FALSE, shape |-> shape, data |-> data]

ndim(a) == Len(a.shape)

RECURSIVE Prod(_)
Prod(s) == IF s = <<>> THEN 1 ELSE Head(s) * Prod(Tail(s))

\* a.size == 0
IsEmpty(a) == Prod(a.shape) = 0

\* sonar[..., 0] of a rank-3 array stored in C order: every C-th element
FirstChannel(a) ==
    LET C == a.shape[3]
        n == a.shape[1] * a.shape[2]
    IN  Array(<<a.shape[1], a.shape[2]>>, [i \in 1..n |-> a.data[(i - 1) * C + 1]])

RECURSIVE SeqMin(_)
SeqMin(s) == IF Len(s) = 1 THEN s[1]
             ELSE LET m == SeqMin(Tail(s)) IN IF s[1] < m THEN s[1] ELSE m

RECURSIVE SeqMax(_)
SeqMax(s) == IF Len(s) = 1 THEN s[1]
             ELSE LET m == SeqMax(Tail(s)) IN IF s[1] > m THEN s[1] ELSE m

----------------------------------------------------------------------------
(* queue.Queue *)

Empty(q) == Len(q) = 0
\* Mutant of Full: the capacity test is off by one
Full_OffByOne(q) == Len(q) >= QueueMaxsize - 1
Full(q) == Len(q) >= QueueMaxsize

\* put_nowait inside "try: ... except Exception: pass": a full queue is left as it is
put_nowait(q, x) == IF Full(q) THEN q ELSE Append(q, x)

----------------------------------------------------------------------------
(* _normalize_to_u8 *)

\* Mutant of Ema: the two weights are swapped
Ema_Swapped(alpha, old, new) == (alpha * old + (AlphaDen - alpha) * (new * Scale)) \div AlphaDen

\* the EMA step  (1 - a) * old + a * new, a = alpha / AlphaDen; old is scaled, new is a pixel value
Ema(alpha, old, new) == ((AlphaDen - alpha) * old + alpha * (new * Scale)) \div AlphaDen

\* Mutant of ScaleUpdate: the frame's maximum is folded into lo, its minimum into hi
ScaleUpdate_Crossed(alpha, lo, hi, mn, mx) ==
    IF lo = <<>>
    THEN [lo |-> <<mn * Scale>>, hi |-> <<mx * Scale>>]
    ELSE [lo |-> <<Ema(alpha, lo[1], mx)>>, hi |-> <<Ema(alpha, hi[1], mn)>>]

\* Mutant of ScaleUpdate: the first frame seeds lo with 0 instead of its minimum
ScaleUpdate_SeedZero(alpha, lo, hi, mn, mx) ==
    IF lo = <<>>
    THEN [lo |-> <<0>>, hi |-> <<mx * Scale>>]
    ELSE [lo |-> <<Ema(alpha, lo[1], mn)>>, hi |-> <<Ema(alpha, hi[1], mx)>>]

\* self._lo, self._hi after the frame's min and max have been folded in
ScaleUpdate(alpha, lo, hi, mn, mx) ==
    IF lo = <<>>
    THEN [lo |-> <<mn * Scale>>, hi |-> <<mx * Scale>>]
    ELSE [lo |-> <<Ema(alpha, lo[1], mn)>>, hi |-> <<Ema(alpha, hi[1], mx)>>]

\* the smallest scaled difference that is not below 1e-6
EpsCeil == (Scale + EpsDen - 1) \div EpsDen

\* Mutant of Flat: the scale is never taken as collapsed
Flat_Never(lo, hi) == FALSE

\* hi - lo < 1e-6
Flat(lo, hi) == hi - lo < EpsCeil

\* the divisor (hi - lo) used in the element mapping, as the fraction num / den
Divisor(lo, hi) ==
    IF Flat(lo, hi) THEN [num |-> 1, den |-> EpsDen] ELSE [num |-> hi - lo, den |-> Scale]

\* Mutant of ToU8: the ratio is not clamped to 1 from above
ToU8_NoClamp(x, lo, hi) ==
    LET off == x * Scale - lo
    IN  IF off <= 0 THEN 0
        ELSE IF Flat(lo, hi)
             THEN IF off >= EpsCeil THEN 255 ELSE (255 * off * EpsDen) \div Scale
             ELSE (255 * off) \div (hi - lo)

\* uint8(clamp((x - lo) / (hi - lo), 0, 1) * 255) of one pixel x
ToU8(x, lo, hi) ==
    LET off == x * Scale - lo
    IN  IF off <= 0 THEN 0
        ELSE IF Flat(lo, hi)
             THEN IF off >= EpsCeil THEN 255 ELSE (255 * off * EpsDen) \div Scale
             ELSE IF off >= hi - lo THEN 255 ELSE (255 * off) \div (hi - lo)

\* _normalize_to_u8(img) called with ScaleState (lo, hi): the min/max reduction of an
\* empty array raises; otherwise the new ScaleState and the uint8 array
normalize_to_u8(img, alpha, lo, hi) ==
    IF IsEmpty(img)
    THEN [raised |-> TRUE, lo |-> lo, hi |-> hi, u8 |-> None]
    ELSE LET st == ScaleUpdate(alpha, lo, hi, SeqMin(img.data), SeqMax(img.data))
         IN  [raised |-> FALSE, lo |-> st.lo, hi |-> st.hi,
              u8 |-> Array(img.shape,
                           [i \in 1..Len(img.data) |-> ToU8(img.data[i], st.lo[1], st.hi[1])])]

----------------------------------------------------------------------------
(* Inputs *)

ImgA == Array(<<1, 2>>, <<0, 100>>)
ImgB == Array(<<1, 2>>, <<0, 200>>)
ImgFlat == Array(<<1, 2>>, <<5, 5>>)
ImgEmpty == Array(<<0, 2>>, <<>>)
ImgRank1 == Array(<<2>>, <<0, 100>>)
ImgRank3 == Array(<<1, 2, 2>>, <<0, 7, 200, 9>>)

\* what the producer passes to submit (the first channel of ImgRank3 is ImgB)
SubmitInputs == {None, ImgA, ImgEmpty, ImgRank1, ImgRank3}

\* hist.seen after a frame with minimum mn and maximum mx
Seen(seen, mn, mx) ==
    IF seen = <<>> THEN <<mn, mx>>
    ELSE <<IF mn < seen[1] THEN mn ELSE seen[1], IF mx > seen[2] THEN mx ELSE seen[2]>>

\* a count of hist.after, one more if the step was made with _running False
Bump(n) == IF _running THEN n ELSE n + 1

\* a frame in flight: the array and the number of the submit call that brought it
Frame(id, img) == [id |-> id, img |-> img]
NoFrame == Frame(0, None)

----------------------------------------------------------------------------
(* World and ScenarioConfig: values *)

\* a Python value: a str, or an object of another type named by what it wraps
Str(s) == [kind |-> "str", val |-> s]
ClassMethod(name) == [kind |-> "classmethod", val |-> name]
Descriptor(name) == [kind |-> "getset_descriptor", val |-> name]

\* an attribute name, as its first character and the rest
Key(first, rest) == [first |-> first, rest |-> rest]

\* World.__dict__.items(), in definition order: what the class body binds, with
\* the entries every class has
WorldDict ==
    << [k |-> Key("_", "_module__"),      v |-> Str("lib.worlds")],
       [k |-> Key("_", "_doc__"),         v |-> Str("Enumeration of available worlds")],
       [k |-> Key("P", "ierHarbor"),      v |-> Str("PierHarbor")],
       [k |-> Key("O", "penWater"),       v |-> Str("OpenWater")],
       [k |-> Key("S", "impleUnderwater"), v |-> Str("SimpleUnderwater")],
       [k |-> Key("D", "am"),             v |-> Str("Dam")],
       [k |-> Key("R", "ooms"),           v |-> Str("Rooms")],
       [k |-> Key("l", "ist_worlds"),     v |-> ClassMethod("list_worlds")],
       [k |-> Key("_", "_dict__"),        v |-> Descriptor("__dict__")],
       [k |-> Key("_", "_weakref__"),     v |-> Descriptor("__weakref__")] >>

\* k.startswith(c) for a one-character c
startswith(k, c) == k.first = c

\* "if not k.startswith('_')"
Kept(e) == ~startswith(e.k, "_")

\* "[v for k, v in cls.__dict__.items() if not k.startswith('_')]"
list_worlds ==
    LET kept == SelectSeq(WorldDict, Kept)
    IN  [i \in 1..Len(kept) |-> kept[i].v]

\* "x in l" for a list l
In(x, l) == \E i \in 1..Len(l) : l[i] = x

\* ScenarioConfig(name=...): the dataclass defaults, and whether the last call on
\* the object raised
ScenarioInit ==
    [ package_name |-> "Ocean",
      world        |-> Str("PierHarbor"),
      main_agent   |-> "rov0",
      agents       |-> <<>>,
      raised       |-> FALSE ]

----------------------------------------------------------------------------
(* ScanningImagingSonar: construction *)

\* azimuth_bins and range_bins of the accumulator under study
AzimuthBins == 3
RangeBins == 2

\* range_max, the default
RangeMax == 50

\* torch.zeros((range_bins, azimuth_bins))
Zeros == [r \in 1..RangeBins |-> [c \in 1..AzimuthBins |-> 0]]

AccHistInit ==
    [ n     |-> 0,        \* step calls that returned
      last  |-> "none",   \* how the last step call ended: "none" (returned None, or no
                          \* call yet), "frame", "raised"
      ret   |-> None,     \* the frame the last completed sweep returned
      sweep |-> <<>>,     \* the profiles written since the last returned frame
      done  |-> <<>>,     \* the profiles of the sweep that ret was built from
      old   |-> 0 ]       \* the largest value written in the sweeps before that one

SurfaceInit ==
    [ gone   |-> FALSE,   \* the window was closed from outside
      failed |-> FALSE,   \* a display update was attempted on the closed window
      after  |-> 0 ]      \* frames update_plot took from out_q after such an attempt

RovHistInit ==
    [ sweepOf |-> <<>>,   \* the profiles of the sweep whose frame is in latest_sonar_img
      npub    |-> 0,      \* assignments to latest_sonar_img so far
      late    |-> 0,      \* those made after sonar_stop_event was set
      shown   |-> None ]  \* what the last get_latest_sonar_image() returned

\* bluerov_test after sonar_thread.start()
RovInit ==
    /\ sonar_stop_event = FALSE
    /\ sonar_queue = <<>>
    /\ latest_sonar_img = None
    /\ rpc = "loop"
    /\ spc = "test"
    /\ wprofile = None
    /\ wimg = None
    /\ shist = RovHistInit

ExtInit ==
    /\ col = 0
    /\ buffer = Zeros
    /\ ahist = AccHistInit
    /\ overwritten = NoFrame
    /\ surface = SurfaceInit
    /\ scenario = ScenarioInit
    /\ worlds_ret = <<>>
    /\ RovInit

----------------------------------------------------------------------------
(* State after __init__ *)

HistInit ==
    [ last      |-> "call",  \* how the last call of the main thread ended, when it left
                             \* no other trace: "submit_none", "update_limited",
                             \* "update_empty", "update_raised", "norm_raised"; else "call"
      submitted |-> 0,       \* id of the frame of the last submit that returned
      putFull   |-> FALSE,   \* a put_nowait of submit found the queue full
      taken     |-> <<>>,    \* per worker take: the frame's id and hist.submitted then
      closes    |-> 0,       \* close() calls so far: 0, 1, or 2 for two and more
      presents  |-> <<>>,    \* per display update: the frame's id and update_plot's now
      prevLo    |-> <<>>,    \* ScaleState before the last normalization
      prevHi    |-> <<>>,
      stats     |-> <<>>,    \* <<min, max>> of the last frame normalized
      raw       |-> None,    \* the last frame normalized, as _normalize_to_u8 received it
      seen      |-> <<>>,    \* <<smallest min, largest max>> of the frames normalized
      inits     |-> 0,       \* calls of _init_mesh so far, whether they returned or raised
      after     |-> [taken |-> 0, norms |-> 0, pubs |-> 0],
                             \* what the worker did while _running was False: takes
                             \* from in_q, ScaleState updates, puts to out_q
      norms     |-> 0 ]      \* normalizations that returned or raised

Init ==
    /\ in_q = <<>>
    /\ out_q = <<>>
    /\ _running = TRUE
    /\ _lo = <<>>
    /\ _hi = <<>>
    /\ ema_alpha = AlphaDefault
    /\ last_plot_time = 0
    /\ initialized = FALSE
    /\ mesh = <<>>
    /\ clock = Period
    /\ mpc = "idle"
    /\ sonar = NoFrame
    /\ wpc = "loop"
    /\ wsonar = NoFrame
    /\ wu8 = NoFrame
    /\ nsub = 0
    /\ hist = HistInit
    /\ ExtInit

mainVars == <<last_plot_time, initialized, mesh, mpc, sonar, nsub>>
workerVars == <<wpc, wsonar, wu8>>
scaleVars == <<_lo, _hi, ema_alpha>>

----------------------------------------------------------------------------
(* close *)

\* Mutant of close: ScaleState is reset as well
close_ResetScale ==
    /\ _running' = FALSE
    /\ _lo' = <<>>
    /\ _hi' = <<>>
    /\ hist' = [hist EXCEPT !.closes = IF @ < 2 THEN @ + 1 ELSE @, !.last = "call"]
    /\ UNCHANGED <<in_q, out_q, ema_alpha, mainVars, workerVars, clock>>
    /\ UNCHANGED extVars

\* Mutant of close: the flag is toggled instead of cleared
close_Toggle ==
    /\ _running' = ~_running
    /\ hist' = [hist EXCEPT !.closes = IF @ < 2 THEN @ + 1 ELSE @, !.last = "call"]
    /\ UNCHANGED <<in_q, out_q, scaleVars, mainVars, workerVars, clock>>
    /\ UNCHANGED extVars

close ==
    /\ _running' = FALSE
    /\ hist' = [hist EXCEPT !.closes = IF @ < 2 THEN @ + 1 ELSE @, !.last = "call"]
    /\ UNCHANGED <<in_q, out_q, scaleVars, mainVars, workerVars, clock>>
    /\ UNCHANGED extVars

----------------------------------------------------------------------------
(* submit *)

\* "if sonar is None: return", "if sonar.ndim == 3: sonar = sonar[..., 0]"
SubmitCall(img) ==
    /\ mpc = "idle"
    /\ IF img.isNone
       THEN /\ hist' = [hist EXCEPT !.last = "submit_none"]
            /\ UNCHANGED <<mpc, sonar, nsub>>
       ELSE /\ nsub < MaxFrames
            /\ nsub' = nsub + 1
            /\ sonar' = Frame(nsub + 1, IF ndim(img) = 3 THEN FirstChannel(img) ELSE img)
            /\ mpc' = "drain"
            /\ hist' = [hist EXCEPT !.last = "call"]
    /\ UNCHANGED <<in_q, out_q, _running, scaleVars, last_plot_time, initialized, mesh,
                   workerVars, clock>>
    /\ UNCHANGED extVars

\* Mutant of SubmitDrain: the pending frame is not removed before the put
SubmitDrain_NoDrain ==
    /\ mpc = "drain"
    /\ mpc' = "put"
    /\ UNCHANGED <<in_q, out_q, _running, scaleVars, last_plot_time, initialized, mesh, sonar,
                   nsub, workerVars, clock, hist>>
    /\ UNCHANGED extVars

\* "while True: self.in_q.get_nowait()" until Empty
SubmitDrain ==
    /\ mpc = "drain"
    /\ IF Empty(in_q)
       THEN mpc' = "put" /\ in_q' = in_q
       ELSE mpc' = "drain" /\ in_q' = Tail(in_q)
    /\ UNCHANGED <<out_q, _running, scaleVars, last_plot_time, initialized, mesh, sonar,
                   nsub, workerVars, clock, hist>>
    /\ UNCHANGED extVars

\* "self.in_q.put_nowait(sonar)" in try/except, then return
SubmitPut ==
    /\ mpc = "put"
    /\ in_q' = put_nowait(in_q, sonar)
    /\ mpc' = "idle"
    /\ sonar' = NoFrame
    /\ hist' = [hist EXCEPT !.submitted = sonar.id, !.putFull = @ \/ Full(in_q)]
    /\ UNCHANGED <<out_q, _running, scaleVars, last_plot_time, initialized, mesh, nsub,
                   workerVars, clock>>
    /\ UNCHANGED extVars

\* Mutant of submit: the frame is appended to an unbounded queue, nothing is removed
submit_Unbounded ==
    \/ \E img \in SubmitInputs : SubmitCall(img)
    \/ /\ mpc = "drain"
       /\ in_q' = Append(in_q, sonar)
       /\ mpc' = "idle"
       /\ sonar' = NoFrame
       /\ hist' = [hist EXCEPT !.submitted = sonar.id]
       /\ UNCHANGED <<out_q, _running, scaleVars, last_plot_time, initialized, mesh, nsub,
                      workerVars, clock>>
       /\ UNCHANGED extVars

\* submit, called with a frame of the set S
submitOf(S) == (\E img \in S : SubmitCall(img)) \/ SubmitDrain \/ SubmitPut

submit == submitOf(SubmitInputs)

----------------------------------------------------------------------------
(* update_plot *)

\* Mutant of RateLimited: the comparison is inverted
RateLimited_Inverted(now) == now - last_plot_time > Period

\* "if now - self.last_plot_time < 1.0 / self.plot_hz: return"
RateLimited(now) == now - last_plot_time < Period

\* "R, A = sonar_shape" of _init_mesh raises unless the shape has two entries
InitMeshRaises(shape) == Len(shape) # 2

\* mesh.set_array(u8.ravel()) on a mesh of R x A cells accepts R * A values
\* (matplotlib's QuadMesh rejects an array of another size)
SetArrayRaises(shape, data) == Len(data) # Prod(shape)

\* Mutant of update_plot: the frame shown is left in out_q
update_plot_Peek ==
    /\ mpc = "idle"
    /\ ~RateLimited(clock)
    /\ ~Empty(out_q)
    /\ ~InitMeshRaises(Head(out_q).img.shape)
    /\ initialized' = TRUE
    /\ mesh' = [shape |-> Head(out_q).img.shape, data |-> Head(out_q).img.data]
    /\ last_plot_time' = clock
    /\ hist' = [hist EXCEPT !.last = "call",
                            !.presents = Append(@, [id |-> Head(out_q).id, at |-> clock])]
    /\ UNCHANGED <<in_q, out_q, _running, scaleVars, mpc, sonar, nsub, workerVars, clock>>
    /\ UNCHANGED extVars

\* Mutant of update_plot: a call that finds out_q empty records the time as a present
update_plot_StampEmpty ==
    /\ mpc = "idle"
    /\ LET now == clock IN
       IF RateLimited(now)
       THEN /\ hist' = [hist EXCEPT !.last = "update_limited"]
            /\ UNCHANGED <<out_q, last_plot_time, initialized, mesh>>
       ELSE IF Empty(out_q)
       THEN /\ hist' = [hist EXCEPT !.last = "update_empty"]
            /\ last_plot_time' = now
            /\ UNCHANGED <<out_q, initialized, mesh>>
       ELSE LET u8 == Head(out_q)
                geom == IF initialized THEN mesh.shape ELSE u8.img.shape
            IN  /\ out_q' = Tail(out_q)
                /\ IF ~initialized /\ InitMeshRaises(u8.img.shape)
                   THEN \* _init_mesh raised: the exception leaves update_plot
                        /\ hist' = [hist EXCEPT !.last = "update_raised", !.inits = @ + 1]
                        /\ UNCHANGED <<last_plot_time, initialized, mesh>>
                   ELSE IF SetArrayRaises(geom, u8.img.data)
                   THEN \* the mesh exists (zeros) but set_array raised
                        /\ initialized' = TRUE
                        /\ mesh' = [shape |-> geom,
                                    data |-> IF initialized THEN mesh.data
                                             ELSE [i \in 1..Prod(geom) |-> 0]]
                        /\ hist' = [hist EXCEPT !.last = "update_raised",
                                                !.inits = IF initialized THEN @ ELSE @ + 1]
                        /\ UNCHANGED last_plot_time
                   ELSE /\ initialized' = TRUE
                        /\ mesh' = [shape |-> geom, data |-> u8.img.data]
                        /\ last_plot_time' = now
                        /\ hist' = [hist EXCEPT !.last = "call",
                                                !.inits = IF initialized THEN @ ELSE @ + 1,
                                                !.presents = Append(@, [id |-> u8.id, at |-> now])]
    /\ UNCHANGED <<in_q, _running, scaleVars, mpc, sonar, nsub, workerVars, clock>>
    /\ UNCHANGED extVars

\* Mutant of update_plot: the frame is taken from out_q before the rate test
update_plot_TakeFirst ==
    /\ mpc = "idle"
    /\ LET now == clock IN
       IF RateLimited(now)
       THEN /\ hist' = [hist EXCEPT !.last = "update_limited"]
            /\ out_q' = IF Empty(out_q) THEN out_q ELSE Tail(out_q)
            /\ UNCHANGED <<last_plot_time, initialized, mesh>>
       ELSE IF Empty(out_q)
       THEN /\ hist' = [hist EXCEPT !.last = "update_empty"]
            /\ UNCHANGED <<out_q, last_plot_time, initialized, mesh>>
       ELSE LET u8 == Head(out_q)
                geom == IF initialized THEN mesh.shape ELSE u8.img.shape
            IN  /\ out_q' = Tail(out_q)
                /\ IF ~initialized /\ InitMeshRaises(u8.img.shape)
                   THEN \* _init_mesh raised: the exception leaves update_plot
                        /\ hist' = [hist EXCEPT !.last = "update_raised", !.inits = @ + 1]
                        /\ UNCHANGED <<last_plot_time, initialized, mesh>>
                   ELSE IF SetArrayRaises(geom, u8.img.data)
                   THEN \* the mesh exists (zeros) but set_array raised
                        /\ initialized' = TRUE
                        /\ mesh' = [shape |-> geom,
                                    data |-> IF initialized THEN mesh.data
                                             ELSE [i \in 1..Prod(geom) |-> 0]]
                        /\ hist' = [hist EXCEPT !.last = "update_raised",
                                                !.inits = IF initialized THEN @ ELSE @ + 1]
                        /\ UNCHANGED last_plot_time
                   ELSE /\ initialized' = TRUE
                        /\ mesh' = [shape |-> geom, data |-> u8.img.data]
                        /\ last_plot_time' = now
                        /\ hist' = [hist EXCEPT !.last = "call",
                                                !.inits = IF initialized THEN @ ELSE @ + 1,
                                                !.presents = Append(@, [id |-> u8.id, at |-> now])]
    /\ UNCHANGED <<in_q, _running, scaleVars, mpc, sonar, nsub, workerVars, clock>>
    /\ UNCHANGED extVars

\* One call of update_plot.  The only step that touches shared state is
\* out_q.get_nowait(), so the whole call is one step.
update_plot ==
    /\ mpc = "idle"
    /\ LET now == clock IN
       IF RateLimited(now)
       THEN /\ hist' = [hist EXCEPT !.last = "update_limited"]
            /\ UNCHANGED <<out_q, last_plot_time, initialized, mesh>>
       ELSE IF Empty(out_q)
       THEN /\ hist' = [hist EXCEPT !.last = "update_empty"]
            /\ UNCHANGED <<out_q, last_plot_time, initialized, mesh>>
       ELSE LET u8 == Head(out_q)
                geom == IF initialized THEN mesh.shape ELSE u8.img.shape
            IN  /\ out_q' = Tail(out_q)
                /\ IF ~initialized /\ InitMeshRaises(u8.img.shape)
                   THEN \* _init_mesh raised: the exception leaves update_plot
                        /\ hist' = [hist EXCEPT !.last = "update_raised", !.inits = @ + 1]
                        /\ UNCHANGED <<last_plot_time, initialized, mesh>>
                   ELSE IF SetArrayRaises(geom, u8.img.data)
                   THEN \* the mesh exists (zeros) but set_array raised
                        /\ initialized' = TRUE
                        /\ mesh' = [shape |-> geom,
                                    data |-> IF initialized THEN mesh.data
                                             ELSE [i \in 1..Prod(geom) |-> 0]]
                        /\ hist' = [hist EXCEPT !.last = "update_raised",
                                                !.inits = IF initialized THEN @ ELSE @ + 1]
                        /\ UNCHANGED last_plot_time
                   ELSE /\ initialized' = TRUE
                        /\ mesh' = [shape |-> geom, data |-> u8.img.data]
                        /\ last_plot_time' = now
                        /\ hist' = [hist EXCEPT !.last = "call",
                                                !.inits = IF initialized THEN @ ELSE @ + 1,
                                                !.presents = Append(@, [id |-> u8.id, at |-> now])]
    /\ UNCHANGED <<in_q, _running, scaleVars, mpc, sonar, nsub, workerVars, clock>>
    /\ UNCHANGED extVars

\* time.time() advances
Tick ==
    /\ clock < Period + MaxTicks
    /\ clock' = clock + 1
    /\ UNCHANGED <<in_q, out_q, _running, scaleVars, mainVars, workerVars, hist>>
    /\ UNCHANGED extVars

----------------------------------------------------------------------------
(* _worker_loop *)

\* Mutant of WorkerLoop: "while True:"
WorkerLoop_Forever ==
    /\ wpc = "loop"
    /\ wpc' = "get"
    /\ UNCHANGED <<in_q, out_q, _running, scaleVars, mainVars, wsonar, wu8, clock, hist>>
    /\ UNCHANGED extVars

\* "while self._running:"
WorkerLoop ==
    /\ wpc = "loop"
    /\ wpc' = IF _running THEN "get" ELSE "done"
    /\ UNCHANGED <<in_q, out_q, _running, scaleVars, mainVars, wsonar, wu8, clock, hist>>
    /\ UNCHANGED extVars

\* "sonar = self.in_q.get(timeout=0.1)"; "except Empty: continue"
WorkerGet ==
    /\ wpc = "get"
    /\ IF Empty(in_q)
       THEN /\ wpc' = "loop"
            /\ UNCHANGED <<in_q, wsonar, hist>>
       ELSE /\ wsonar' = Head(in_q)
            /\ in_q' = Tail(in_q)
            /\ wpc' = "norm"
            /\ hist' = [hist EXCEPT !.taken =
                            Append(@, [id |-> Head(in_q).id, newest |-> hist.submitted]),
                                    !.after.taken = Bump(@)]
    /\ UNCHANGED <<out_q, _running, scaleVars, mainVars, wu8, clock>>
    /\ UNCHANGED extVars

\* "u8 = self._normalize_to_u8(sonar, device=device)"; an exception ends the thread
WorkerNormalize ==
    /\ wpc = "norm"
    /\ LET r == normalize_to_u8(wsonar.img, ema_alpha, _lo, _hi) IN
       IF r.raised
       THEN /\ wpc' = "crashed"
            /\ hist' = [hist EXCEPT !.norms = @ + 1]
            /\ UNCHANGED <<_lo, _hi, wu8>>
       ELSE /\ _lo' = r.lo
            /\ _hi' = r.hi
            /\ wu8' = Frame(wsonar.id, r.u8)
            /\ wpc' = "odrain"
            /\ hist' = [hist EXCEPT !.prevLo = _lo, !.prevHi = _hi, !.norms = @ + 1,
                                    !.stats = <<SeqMin(wsonar.img.data),
                                                SeqMax(wsonar.img.data)>>,
                                    !.raw = wsonar.img,
                                    !.after.norms = Bump(@),
                                    !.seen = Seen(@, SeqMin(wsonar.img.data),
                                                  SeqMax(wsonar.img.data))]
    /\ wsonar' = NoFrame
    /\ UNCHANGED <<in_q, out_q, _running, ema_alpha, mainVars, clock>>
    /\ UNCHANGED extVars

\* Mutant of WorkerDrainOut: the pending frame is not removed before the put
WorkerDrainOut_NoDrain ==
    /\ wpc = "odrain"
    /\ wpc' = "oput"
    /\ UNCHANGED <<in_q, out_q, _running, scaleVars, mainVars, wsonar, wu8, clock, hist>>
    /\ UNCHANGED extVars

\* "while True: self.out_q.get_nowait()" until Empty
WorkerDrainOut ==
    /\ wpc = "odrain"
    /\ IF Empty(out_q)
       THEN wpc' = "oput" /\ out_q' = out_q
       ELSE wpc' = "odrain" /\ out_q' = Tail(out_q)
    /\ UNCHANGED <<in_q, _running, scaleVars, mainVars, wsonar, wu8, clock, hist>>
    /\ UNCHANGED extVars

\* Mutant of WorkerPutOut: the next iteration starts without the loop test
WorkerPutOut_SkipTest ==
    /\ wpc = "oput"
    /\ out_q' = put_nowait(out_q, wu8)
    /\ wu8' = NoFrame
    /\ wpc' = "get"
    /\ hist' = [hist EXCEPT !.after.pubs = IF Full(out_q) THEN @ ELSE Bump(@)]
    /\ UNCHANGED <<in_q, _running, scaleVars, mainVars, wsonar, clock>>
    /\ UNCHANGED extVars

\* "self.out_q.put_nowait(u8)" in try/except, back to the loop test
WorkerPutOut ==
    /\ wpc = "oput"
    /\ out_q' = put_nowait(out_q, wu8)
    /\ wu8' = NoFrame
    /\ wpc' = "loop"
    /\ hist' = [hist EXCEPT !.after.pubs = IF Full(out_q) THEN @ ELSE Bump(@)]
    /\ UNCHANGED <<in_q, _running, scaleVars, mainVars, wsonar, clock>>
    /\ UNCHANGED extVars

_worker_loop == WorkerLoop \/ WorkerGet \/ WorkerNormalize \/ WorkerDrainOut \/ WorkerPutOut

----------------------------------------------------------------------------
(* The pipeline *)

Next == submit \/ update_plot \/ close \/ Tick \/ _worker_loop

Spec == Init /\ [][Next]_vars

\* The pipeline with a fairly scheduled worker thread (a thread that has a step to
\* take is eventually run).  The worker's control flow depends on a frame only
\* through whether its normalization raises, so the producer passes None, a valid
\* frame or an empty one.
ShutdownInputs == {None, ImgA, ImgEmpty}

FairNext == submitOf(ShutdownInputs) \/ update_plot \/ close \/ Tick \/ _worker_loop

FairSpec == Init /\ [][FairNext]_vars /\ WF_vars(_worker_loop)

\* The pipeline while it stays open (close is not called): the producer passes None,
\* frames of one fixed shape, or an empty frame.  Only the time since the last
\* display update matters to update_plot, so time.time() is advanced while the
\* rate limit holds.  Both threads are scheduled, time advances, and update_plot
\* keeps being called.
LiveInputs == {None, ImgA, ImgB, ImgEmpty}

LiveTick ==
    /\ RateLimited(clock)
    /\ clock' = clock + 1
    /\ UNCHANGED <<in_q, out_q, _running, scaleVars, mainVars, workerVars, hist>>
    /\ UNCHANGED extVars

LiveNext == submitOf(LiveInputs) \/ update_plot \/ LiveTick \/ _worker_loop

LiveSpec ==
    /\ Init
    /\ [][LiveNext]_vars
    /\ WF_vars(_worker_loop)
    /\ WF_vars(SubmitDrain \/ SubmitPut)
    /\ WF_vars(update_plot)
    /\ WF_vars(LiveTick)

----------------------------------------------------------------------------
(* _normalize_to_u8 on its own: a sequence of calls on one visualizer, with  *)
(* ema_alpha chosen at construction                                          *)

ImgC == Array(<<2, 2>>, <<20, 50, 100, 150>>)

NormInputs == {ImgA, ImgB, ImgC, ImgFlat, ImgEmpty}

\* ema_alpha values, over AlphaDen
Alphas == {0, AlphaDefault, 5, AlphaDen}

NormInit ==
    /\ in_q = <<>>
    /\ out_q = <<>>
    /\ _running = TRUE
    /\ _lo = <<>>
    /\ _hi = <<>>
    /\ ema_alpha \in Alphas
    /\ last_plot_time = 0
    /\ initialized = FALSE
    /\ mesh = <<>>
    /\ clock = Period
    /\ mpc = "idle"
    /\ sonar = NoFrame
    /\ wpc = "loop"
    /\ wsonar = NoFrame
    /\ wu8 = NoFrame
    /\ nsub = 0
    /\ hist = HistInit
    /\ ExtInit

\* u8 = self._normalize_to_u8(img); a raised exception leaves the object as it was
NormCall(img) ==
    /\ hist.norms < MaxNorm
    /\ LET r == normalize_to_u8(img, ema_alpha, _lo, _hi) IN
       IF r.raised
       THEN /\ hist' = [hist EXCEPT !.norms = @ + 1, !.last = "norm_raised"]
            /\ UNCHANGED <<_lo, _hi, wu8>>
       ELSE /\ _lo' = r.lo
            /\ _hi' = r.hi
            /\ wu8' = Frame(hist.norms + 1, r.u8)
            /\ hist' = [hist EXCEPT !.prevLo = _lo, !.prevHi = _hi, !.norms = @ + 1,
                                    !.last = "call",
                                    !.stats = <<SeqMin(img.data), SeqMax(img.data)>>,
                                    !.raw = img,
                                    !.seen = Seen(@, SeqMin(img.data), SeqMax(img.data))]
    /\ UNCHANGED <<in_q, out_q, _running, ema_alpha, mainVars, wpc, wsonar, clock>>
    /\ UNCHANGED extVars

NormNext == \E img \in NormInputs : NormCall(img)

NormSpec == NormInit /\ [][NormNext]_vars

----------------------------------------------------------------------------
(* The producer reuses the array it passed to submit.  submit enqueues the   *)
(* array itself (for a 3-D array a view of it), so the frame in in_q is the  *)
(* producer's array.                                                         *)

AliasInputs == {ImgA, ImgRank3}

\* what the producer writes into every element
Scribble(img) == Array(img.shape, [i \in 1..Len(img.data) |-> 9])

\* "arr[:] = 9" on the array of the pending frame, after submit has returned
ProducerOverwrite ==
    /\ mpc = "idle"
    /\ Len(in_q) = 1
    /\ overwritten = NoFrame
    /\ in_q' = <<Frame(in_q[1].id, Scribble(in_q[1].img))>>
    /\ overwritten' = in_q[1]
    /\ UNCHANGED <<out_q, _running, scaleVars, mainVars, workerVars, clock, hist>>
    /\ UNCHANGED <<accVars, surface, scenario, worlds_ret, rovVars>>

AliasNext ==
    submitOf(AliasInputs) \/ ProducerOverwrite \/ update_plot \/ close \/ Tick \/ _worker_loop

AliasSpec == Init /\ [][AliasNext]_vars

----------------------------------------------------------------------------
(* The figure window is closed from outside.  What fig.canvas.draw(),         *)
(* draw_idle() and flush_events() do on a closed window depends on the        *)
(* matplotlib backend: they raise, or they return without drawing.            *)

SurfaceInputs == {None, ImgA, ImgRank1}

\* the user closes the window
WindowClosed ==
    /\ ~surface.gone
    /\ surface' = [surface EXCEPT !.gone = TRUE]
    /\ UNCHANGED <<pipeVars, accVars, overwritten, scenario, worlds_ret, rovVars>>

\* One call of update_plot with the window closed: the rate limit and the empty
\* out_q return as before; otherwise the frame is taken from out_q and the drawing
\* calls raise or return.  Nothing in update_plot catches the exception, calls
\* close() or reads _running.
update_plot_WindowClosed ==
    /\ mpc = "idle"
    /\ surface.gone
    /\ LET now == clock IN
       IF RateLimited(now)
       THEN /\ hist' = [hist EXCEPT !.last = "update_limited"]
            /\ UNCHANGED <<out_q, last_plot_time, initialized, mesh, surface>>
       ELSE IF Empty(out_q)
       THEN /\ hist' = [hist EXCEPT !.last = "update_empty"]
            /\ UNCHANGED <<out_q, last_plot_time, initialized, mesh, surface>>
       ELSE LET u8 == Head(out_q)
                geom == IF initialized THEN mesh.shape ELSE u8.img.shape
                bad == \/ ~initialized /\ InitMeshRaises(u8.img.shape)
                       \/ SetArrayRaises(geom, u8.img.data)
            IN  /\ out_q' = Tail(out_q)
                /\ surface' = [surface EXCEPT !.failed = TRUE,
                                              !.after = IF surface.failed THEN 1 ELSE @]
                /\ \E drawRaises \in BOOLEAN :
                       IF bad \/ drawRaises
                       THEN /\ mesh' = IF initialized /\ ~bad
                                       THEN [shape |-> geom, data |-> u8.img.data]
                                       ELSE mesh
                            /\ hist' = [hist EXCEPT !.last = "update_raised"]
                            /\ UNCHANGED <<last_plot_time, initialized>>
                       ELSE /\ initialized' = TRUE
                            /\ mesh' = [shape |-> geom, data |-> u8.img.data]
                            /\ last_plot_time' = now
                            /\ hist' = [hist EXCEPT !.last = "call"]
    /\ UNCHANGED <<in_q, _running, scaleVars, mpc, sonar, nsub, workerVars, clock>>
    /\ UNCHANGED <<accVars, overwritten, scenario, worlds_ret, rovVars>>

SurfaceNext ==
    \/ submitOf(SurfaceInputs)
    \/ (~surface.gone /\ update_plot)
    \/ update_plot_WindowClosed
    \/ WindowClosed
    \/ close
    \/ Tick
    \/ _worker_loop

SurfaceSpec == Init /\ [][SurfaceNext]_vars

----------------------------------------------------------------------------
(* ScanningImagingSonar._build_image *)

\* torch.linspace(1.0, range_max, range_bins)[r - 1] as the fraction RangeNum(r) / RangeDen
RangeDen == IF RangeBins > 1 THEN RangeBins - 1 ELSE 1
RangeNum(r) == RangeDen + (r - 1) * (RangeMax - 1)

\* log1p is taken as a base-2 logarithm in fixed point, rounded down: FracBits
\* fractional bits, computed on a mantissa of MantBits bits.  The image divides
\* log1p values by their maximum, so the base cancels.
FracBits == 8
MantBits == 12
MantOne == 2 ^ MantBits

\* the largest e with den * 2^e <= num, counted up from e
RECURSIVE Log2Floor(_, _, _)
Log2Floor(num, den, e) == IF den * 2 ^ (e + 1) > num THEN e ELSE Log2Floor(num, den, e + 1)

\* the k fractional bits of log2 of the mantissa m / MantOne in [1, 2), by squaring
RECURSIVE Log2Frac(_, _)
Log2Frac(m, k) ==
    IF k = 0 THEN 0
    ELSE LET sq == (m * m) \div MantOne
         IN  IF sq >= 2 * MantOne
             THEN 2 ^ (k - 1) + Log2Frac(sq \div 2, k - 1)
             ELSE Log2Frac(sq, k - 1)

\* log2(num / den) in units of 2^-FracBits, for num >= den
Log2Fix(num, den) ==
    LET e == Log2Floor(num, den, 0)
    IN  e * 2 ^ FracBits + Log2Frac((num * MantOne) \div (den * 2 ^ e), FracBits)

\* log1p(buffer[r][c] * ranges[r] ** 2) for the buffer value v of row r
Log1p(v, r) ==
    IF v = 0 THEN 0
    ELSE Log2Fix(RangeDen * RangeDen + v * RangeNum(r) * RangeNum(r), RangeDen * RangeDen)

\* log1p(buffer * tvg), element by element
LogImage(b) == [r \in 1..RangeBins |-> [c \in 1..AzimuthBins |-> Log1p(b[r][c], r)]]

\* the largest element of a range x azimuth matrix
MatMax(m) ==
    CHOOSE x \in {m[r][c] : r \in 1..RangeBins, c \in 1..AzimuthBins} :
        \A r \in 1..RangeBins, c \in 1..AzimuthBins : m[r][c] <= x

\* uint8(255 * l / (lmax + 1e-6)): the 1e-6 keeps the quotient below 1, so a positive
\* l gives one less than 255 * l / lmax rounded up
Level(l, lmax) == IF l = 0 THEN 0 ELSE (255 * l - 1) \div lmax

\* Mutant of build_image: the image is returned as the buffer is laid out
build_image_NoTranspose(b) ==
    LET L == LogImage(b)
        lmax == MatMax(L)
    IN  Array(<<RangeBins, AzimuthBins>>,
              [i \in 1..(RangeBins * AzimuthBins) |->
                  Level(L[(i - 1) \div AzimuthBins + 1][((i - 1) % AzimuthBins) + 1], lmax)])

\* _build_image(): TVG, log1p, division by the maximum, uint8, then img.T: row c of
\* the result is column c of the buffer
build_image(b) ==
    LET L == LogImage(b)
        lmax == MatMax(L)
    IN  Array(<<AzimuthBins, RangeBins>>,
              [i \in 1..(AzimuthBins * RangeBins) |->
                  Level(L[((i - 1) % RangeBins) + 1][(i - 1) \div RangeBins + 1], lmax)])

----------------------------------------------------------------------------
(* ScanningImagingSonar.step *)

\* step calls that return, in one behaviour
MaxSteps == 7

\* a profile of range_bins values, v * r in row r
Ramp(v) == Array(<<RangeBins>>, [r \in 1..RangeBins |-> v * r])

ValidProfiles == {Ramp(0), Ramp(1), Ramp(2)}

\* None, an empty profile, a profile of one value, a profile one value too long
ProfileEmpty == Array(<<0>>, <<>>)
ProfileOne == Array(<<1>>, <<7>>)
ProfileLong == Array(<<RangeBins + 1>>, [r \in 1..(RangeBins + 1) |-> r])

StepInputs == ValidProfiles \cup {None, ProfileEmpty, ProfileOne, ProfileLong}

\* "self.buffer[:, self.col] = torch.as_tensor(profile, ...)" raises for None and for
\* a tensor that cannot be broadcast to the column: a tensor of one value can
AssignRaises(profile) ==
    \/ profile.isNone
    \/ ndim(profile) # 1
    \/ Len(profile.data) \notin {1, RangeBins}

\* the values the assignment writes to rows 1..range_bins of the column
Column(profile) ==
    [r \in 1..RangeBins |-> IF Len(profile.data) = 1 THEN profile.data[1] ELSE profile.data[r]]

\* the largest of m and the values that the profiles wrote to the buffer
Largest(m, profiles) ==
    LET S == {m} \cup {Column(profiles[k])[r] : k \in 1..Len(profiles), r \in 1..RangeBins}
    IN  CHOOSE x \in S : \A y \in S : y <= x

\* Mutant of SweepOpen: the comparison admits col = azimuth_bins
SweepOpen_OffByOne(c) == c <= AzimuthBins

\* "if self.col < self.azimuth_bins: return None"
SweepOpen(c) == c < AzimuthBins

\* Mutant of step: the cursor is not reset when the sweep is complete
step_NoReset(profile) ==
    /\ IF AssignRaises(profile)
       THEN /\ ahist' = [ahist EXCEPT !.last = "raised"]
            /\ UNCHANGED <<col, buffer>>
       ELSE /\ ahist.n < MaxSteps
            /\ buffer' = [r \in 1..RangeBins |-> [buffer[r] EXCEPT ![col + 1] = Column(profile)[r]]]
            /\ col' = col + 1
            /\ IF SweepOpen(col + 1)
               THEN ahist' = [ahist EXCEPT !.n = @ + 1, !.last = "none",
                                           !.sweep = Append(@, profile)]
               ELSE ahist' = [ahist EXCEPT !.n = @ + 1, !.last = "frame",
                                           !.ret = build_image(buffer'),
                                           !.done = Append(ahist.sweep, profile),
                                           !.old = Largest(@, ahist.done),
                                           !.sweep = <<>>]
    /\ UNCHANGED <<pipeVars, overwritten, surface, scenario, worlds_ret>>

\* Mutant of step: the image of a complete sweep is built before its last column
\* is written
step_BuildBeforeWrite(profile) ==
    /\ IF AssignRaises(profile)
       THEN /\ ahist' = [ahist EXCEPT !.last = "raised"]
            /\ UNCHANGED <<col, buffer>>
       ELSE /\ ahist.n < MaxSteps
            /\ buffer' = [r \in 1..RangeBins |-> [buffer[r] EXCEPT ![col + 1] = Column(profile)[r]]]
            /\ IF SweepOpen(col + 1)
               THEN /\ col' = col + 1
                    /\ ahist' = [ahist EXCEPT !.n = @ + 1, !.last = "none",
                                               !.sweep = Append(@, profile)]
               ELSE /\ col' = 0
                    /\ ahist' = [ahist EXCEPT !.n = @ + 1, !.last = "frame",
                                               !.ret = build_image(buffer),
                                               !.done = Append(ahist.sweep, profile),
                                               !.old = Largest(@, ahist.done),
                                               !.sweep = <<>>]
    /\ UNCHANGED <<pipeVars, overwritten, surface, scenario, worlds_ret>>

\* Mutant of step: every call returns the image of the buffer as it then is
step_EmitEach(profile) ==
    /\ IF AssignRaises(profile)
       THEN /\ ahist' = [ahist EXCEPT !.last = "raised"]
            /\ UNCHANGED <<col, buffer>>
       ELSE /\ ahist.n < MaxSteps
            /\ buffer' = [r \in 1..RangeBins |-> [buffer[r] EXCEPT ![col + 1] = Column(profile)[r]]]
            /\ IF SweepOpen(col + 1)
               THEN /\ col' = col + 1
                    /\ ahist' = [ahist EXCEPT !.n = @ + 1, !.last = "frame",
                                               !.ret = build_image(buffer'),
                                               !.sweep = Append(@, profile)]
               ELSE /\ col' = 0
                    /\ ahist' = [ahist EXCEPT !.n = @ + 1, !.last = "frame",
                                               !.ret = build_image(buffer'),
                                               !.done = Append(ahist.sweep, profile),
                                               !.old = Largest(@, ahist.done),
                                               !.sweep = <<>>]
    /\ UNCHANGED <<pipeVars, overwritten, surface, scenario, worlds_ret>>

\* step(profile): an exception leaves col and buffer as they were (the assignment
\* is the first statement); otherwise the column is written, col advances, and at
\* col = azimuth_bins col is reset and the image of the buffer is returned
step(profile) ==
    /\ IF AssignRaises(profile)
       THEN /\ ahist' = [ahist EXCEPT !.last = "raised"]
            /\ UNCHANGED <<col, buffer>>
       ELSE /\ ahist.n < MaxSteps
            /\ buffer' = [r \in 1..RangeBins |-> [buffer[r] EXCEPT ![col + 1] = Column(profile)[r]]]
            /\ IF SweepOpen(col + 1)
               THEN /\ col' = col + 1
                    /\ ahist' = [ahist EXCEPT !.n = @ + 1, !.last = "none",
                                               !.sweep = Append(@, profile)]
               ELSE /\ col' = 0
                    /\ ahist' = [ahist EXCEPT !.n = @ + 1, !.last = "frame",
                                               !.ret = build_image(buffer'),
                                               !.done = Append(ahist.sweep, profile),
                                               !.old = Largest(@, ahist.done),
                                               !.sweep = <<>>]
    /\ UNCHANGED <<pipeVars, overwritten, surface, scenario, worlds_ret>>

\* step, called on an accumulator of its own
AccNext == \E profile \in StepInputs : step(profile) /\ UNCHANGED rovVars

AccSpec == Init /\ [][AccNext]_vars

----------------------------------------------------------------------------
(* bluerov_test: the main loop pushes sonar profiles to sonar_queue, the     *)
(* thread sonar_worker passes them to step and shares the frames             *)

\* state[SONAR_KEY]: profiles of range_bins values, or of another length
SonarInputs == {Ramp(1), Ramp(2), ProfileLong}

rovOnly == <<pipeVars, accVars, overwritten, surface, scenario, worlds_ret>>

\* main loop, "if SONAR_KEY in state:" "if sonar_queue.full():"; an iteration
\* without a sonar reading goes on to get_latest_sonar_image()
RovFull ==
    /\ rpc = "loop"
    /\ \/ rpc' = IF Full(sonar_queue) THEN "get" ELSE "put"
       \/ rpc' = "show"
    /\ UNCHANGED <<sonar_stop_event, sonar_queue, latest_sonar_img, spc, wprofile, wimg, shist>>
    /\ UNCHANGED rovOnly

\* "sonar_queue.get_nowait(); sonar_queue.task_done()", "except Empty: pass"
RovGetNowait ==
    /\ rpc = "get"
    /\ sonar_queue' = IF Empty(sonar_queue) THEN sonar_queue ELSE Tail(sonar_queue)
    /\ rpc' = "put"
    /\ UNCHANGED <<sonar_stop_event, latest_sonar_img, spc, wprofile, wimg, shist>>
    /\ UNCHANGED rovOnly

\* "sonar_queue.put(profile)", which waits while the queue is full
RovPut(profile) ==
    /\ rpc = "put"
    /\ ~Full(sonar_queue)
    /\ sonar_queue' = Append(sonar_queue, profile)
    /\ rpc' = "show"
    /\ UNCHANGED <<sonar_stop_event, latest_sonar_img, spc, wprofile, wimg, shist>>
    /\ UNCHANGED rovOnly

\* "sonar_img = get_latest_sonar_image()", then the rest of the iteration
get_latest_sonar_image ==
    /\ rpc = "show"
    /\ shist' = [shist EXCEPT !.shown = latest_sonar_img]
    /\ rpc' = "loop"
    /\ UNCHANGED <<sonar_stop_event, sonar_queue, latest_sonar_img, spc, wprofile, wimg>>
    /\ UNCHANGED rovOnly

\* the loop is left (break, KeyboardInterrupt, an exception) at any point:
\* "finally: sonar_stop_event.set()"
RovStop ==
    /\ rpc # "exit"
    /\ sonar_stop_event' = TRUE
    /\ rpc' = "exit"
    /\ UNCHANGED <<sonar_queue, latest_sonar_img, spc, wprofile, wimg, shist>>
    /\ UNCHANGED rovOnly

\* "while not stop_event.is_set():"
SonarWorkerLoop ==
    /\ spc = "test"
    /\ spc' = IF sonar_stop_event THEN "done" ELSE "get"
    /\ UNCHANGED <<sonar_stop_event, sonar_queue, latest_sonar_img, rpc, wprofile, wimg, shist>>
    /\ UNCHANGED rovOnly

\* "profile = sonar_queue.get(timeout=0.1)"; "except Empty: continue"
SonarWorkerGet ==
    /\ spc = "get"
    /\ IF Empty(sonar_queue)
       THEN /\ spc' = "test"
            /\ UNCHANGED <<sonar_queue, wprofile>>
       ELSE /\ wprofile' = Head(sonar_queue)
            /\ sonar_queue' = Tail(sonar_queue)
            /\ spc' = "step"
    /\ UNCHANGED <<sonar_stop_event, latest_sonar_img, rpc, wimg, shist>>
    /\ UNCHANGED rovOnly

\* "sonar_img = scanning_sonar.step(profile)"; an exception passes through the
\* try/finally and ends the thread
SonarWorkerStep ==
    /\ spc = "step"
    /\ step(wprofile)
    /\ spc' = IF ahist'.last = "raised" THEN "crashed" ELSE "publish"
    /\ wimg' = IF ahist'.last = "frame" THEN ahist'.ret ELSE None
    /\ wprofile' = None
    /\ UNCHANGED <<sonar_stop_event, sonar_queue, latest_sonar_img, rpc, shist>>

\* "if sonar_img is not None: with sonar_img_lock: latest_sonar_img = sonar_img",
\* "finally: sonar_queue.task_done()"
SonarWorkerPublish ==
    /\ spc = "publish"
    /\ IF wimg.isNone
       THEN UNCHANGED <<latest_sonar_img, shist>>
       ELSE /\ latest_sonar_img' = wimg
            /\ shist' = [shist EXCEPT !.sweepOf = ahist.done,
                                       !.npub = @ + 1,
                                       !.late = IF sonar_stop_event THEN @ + 1 ELSE @]
    /\ wimg' = None
    /\ spc' = "test"
    /\ UNCHANGED <<sonar_stop_event, sonar_queue, rpc, wprofile>>
    /\ UNCHANGED rovOnly

sonar_worker == SonarWorkerLoop \/ SonarWorkerGet \/ SonarWorkerStep \/ SonarWorkerPublish

RovNext ==
    \/ RovFull
    \/ RovGetNowait
    \/ \E profile \in SonarInputs : RovPut(profile)
    \/ get_latest_sonar_image
    \/ RovStop
    \/ sonar_worker

RovSpec == Init /\ [][RovNext]_vars

----------------------------------------------------------------------------
(* ScenarioConfig: the builder calls, with calls of World.list_worlds() *)

\* agents added to one scenario
MaxAgents == 2

Packages == {"Ocean", "Custom"}
AgentNames == {"rov0", "rov1"}

\* an agent with to_dict(), or an object without it
Agent(name) == [has_to_dict |-> TRUE, agent_name |-> name]
NotAnAgent == [has_to_dict |-> FALSE, agent_name |-> ""]

\* what callers pass to set_world: the World attributes, an unknown name
WorldArgs == {WorldDict[i].v : i \in 1..Len(WorldDict)} \cup {Str("Mars")}

scenarioOnly == <<pipeVars, accVars, overwritten, surface, rovVars>>

set_package(package) ==
    /\ scenario' = [scenario EXCEPT !.package_name = package, !.raised = FALSE]
    /\ UNCHANGED <<scenarioOnly, worlds_ret>>

\* "if world not in World.list_worlds(): raise ValueError"
set_world(world) ==
    /\ IF ~In(world, list_worlds)
       THEN scenario' = [scenario EXCEPT !.raised = TRUE]
       ELSE scenario' = [scenario EXCEPT !.world = world, !.raised = FALSE]
    /\ UNCHANGED <<scenarioOnly, worlds_ret>>

set_main_agent(agent_name) ==
    /\ scenario' = [scenario EXCEPT !.main_agent = agent_name, !.raised = FALSE]
    /\ UNCHANGED <<scenarioOnly, worlds_ret>>

\* "if not hasattr(agent, 'to_dict'): raise TypeError"
add_agent(agent) ==
    /\ IF ~agent.has_to_dict
       THEN scenario' = [scenario EXCEPT !.raised = TRUE]
       ELSE /\ Len(scenario.agents) < MaxAgents
            /\ scenario' = [scenario EXCEPT !.agents = Append(@, agent.agent_name),
                                            !.raised = FALSE]
    /\ UNCHANGED <<scenarioOnly, worlds_ret>>

clear_agents ==
    /\ scenario' = [scenario EXCEPT !.agents = <<>>, !.raised = FALSE]
    /\ UNCHANGED <<scenarioOnly, worlds_ret>>

\* a call of World.list_worlds()
ListWorlds ==
    /\ worlds_ret' = list_worlds
    /\ UNCHANGED <<scenarioOnly, scenario>>

ScenarioNext ==
    \/ \E package \in Packages : set_package(package)
    \/ \E world \in WorldArgs : set_world(world)
    \/ \E agent_name \in AgentNames : set_main_agent(agent_name)
    \/ \E agent \in {Agent(n) : n \in AgentNames} \cup {NotAnAgent} : add_agent(agent)
    \/ clear_agents
    \/ ListWorlds

ScenarioSpec == Init /\ [][ScenarioNext]_vars

----------------------------------------------------------------------------
(* Claims *)

Ids(q) == {q[i].id : i \in 1..Len(q)}

\* C1: newest-wins on in_q.  Every frame the worker takes from in_q is the frame of
\* the most recent submit that returned, and the frames it takes have strictly
\* increasing submit numbers: once submit(F2) has returned, an untaken F1 is never
\* taken (so never normalized or presented).
C1_NewestWins ==
    /\ \A i \in 1..Len(hist.taken) : hist.taken[i].id = hist.taken[i].newest
    /\ \A i, j \in 1..Len(hist.taken) : i < j => hist.taken[i].id < hist.taken[j].id
    /\ \A i \in 1..Len(hist.presents) :
           \E j \in 1..Len(hist.taken) : hist.taken[j].id = hist.presents[i].id

\* F1 and F2 were both submitted before the worker took anything, and the worker's
\* first take was F2
C1_Witness ==
    /\ Len(hist.taken) = 1
    /\ hist.taken[1] = [id |-> 2, newest |-> 2]
    /\ wpc = "norm"

\* C2: with the worker running concurrently, the put_nowait of submit never finds
\* in_q full, and once submit has returned the submitted frame is the pending frame
\* of in_q or has been taken by the worker.
C2_SubmitPutSucceeds ==
    /\ ~hist.putFull
    /\ (mpc = "idle" /\ hist.submitted > 0) =>
           \/ Ids(in_q) = {hist.submitted}
           \/ hist.submitted \in Ids(hist.taken)

\* the second submit returned with its frame pending while the worker was busy
\* with the first one
C2_Witness ==
    /\ mpc = "idle"
    /\ hist.submitted = 2
    /\ Ids(in_q) = {2}
    /\ wpc = "norm"
    /\ wsonar.id = 1

\* C3: after close() has returned the worker changes neither ScaleState nor out_q.
\* (As claimed; the worker in fact finishes the iteration it is in.)
C3_NoWorkerMutationAfterClose ==
    [][~_running =>
          /\ _lo' = _lo
          /\ _hi' = _hi
          /\ ~(wpc = "oput" /\ wpc' = "loop" /\ out_q' # out_q)]_vars

\* C4: a frame whose normalization fails does not end the worker loop; the loop ends
\* only through close().  (As claimed; an exception of _normalize_to_u8 in fact
\* ends the thread.)
C4_WorkerEndsOnlyThroughClose ==
    /\ wpc # "crashed"
    /\ wpc = "done" => ~_running

\* a frame that is None, empty or not 2-D
Malformed(img) == img.isNone \/ IsEmpty(img) \/ ndim(img) # 2

\* C5: a malformed frame passed to submit never becomes the pending frame of in_q,
\* never reaches the worker and never raises there.  (As claimed; submit in fact
\* rejects only None.)
C5_MalformedSubmitIsNoOp ==
    /\ \A i \in 1..Len(in_q) : ~Malformed(in_q[i].img)
    /\ wsonar # NoFrame => ~Malformed(wsonar.img)
    /\ wpc # "crashed"

\* C6: two display updates are at least 1/plot_hz apart on the clock update_plot
\* reads, so the calls made within one such window update the display at most once.
C6_RateLimit ==
    \A i, j \in 1..Len(hist.presents) :
        i < j => hist.presents[j].at - hist.presents[i].at >= Period

C6_Witness ==
    /\ Len(hist.presents) = 2
    /\ hist.presents[2].at = hist.presents[1].at + Period
    /\ hist.last = "update_limited"

\* C7: a second (or later) call of close() leaves _running False and changes nothing
\* else of the pipeline.
C7_CloseIdempotent ==
    [][(hist.closes >= 1 /\ hist'.closes = hist.closes + 1) =>
          /\ ~_running /\ ~_running'
          /\ UNCHANGED <<in_q, out_q, scaleVars, mainVars, workerVars, clock>>]_vars

C7_Witness == hist.closes = 2 /\ ~_running /\ Len(in_q) = 1

\* C8: once close() has been called the worker loop ends (under fair scheduling of
\* the worker thread), and a loop test made after close() leaves the loop.
C8_WorkerTerminates ==
    /\ (~_running) ~> (wpc \in {"done", "crashed"})
    /\ [][(wpc = "loop" /\ wpc' # wpc /\ ~_running) => wpc' = "done"]_vars

\* the loop ended through the loop test, close() having come while a frame was
\* being processed
C8_Witness == wpc = "done" /\ ~_running /\ Len(out_q) = 1 /\ Len(hist.taken) = 1

\* C9: in_q and out_q hold at most one frame each.
C9_QueuesAtMostOne == Len(in_q) <= 1 /\ Len(out_q) <= 1

\* both queues hold a frame while the worker is about to publish another one
C9_Witness == Len(in_q) = 1 /\ Len(out_q) = 1 /\ wpc = "odrain"

\* C10: the first frame normalized seeds ScaleState with its (min, max); every later
\* frame moves it to (1-a)*lo + a*min, (1-a)*hi + a*max.  With a = 0.1 and state
\* (0, 100): a frame with min 0, max 200 gives hi = 110, and a frame with min 0,
\* max 100 leaves (0, 100).
C10_EmaScaleUpdate ==
    hist.stats # <<>> =>
        LET mn == hist.stats[1] * Scale
            mx == hist.stats[2] * Scale
            seeded == hist.prevLo = <<0>> /\ hist.prevHi = <<100 * Scale>> /\ ema_alpha = 1
        IN  /\ hist.prevLo = <<>> => (_lo = <<mn>> /\ _hi = <<mx>>)
            /\ hist.prevLo # <<>> =>
                  /\ AlphaDen * _lo[1] = (AlphaDen - ema_alpha) * hist.prevLo[1] + ema_alpha * mn
                  /\ AlphaDen * _hi[1] = (AlphaDen - ema_alpha) * hist.prevHi[1] + ema_alpha * mx
            /\ (seeded /\ hist.stats = <<0, 200>>) => (_lo = <<0>> /\ _hi = <<110 * Scale>>)
            /\ (seeded /\ hist.stats = <<0, 100>>) => (_lo = <<0>> /\ _hi = <<100 * Scale>>)

C10_Witness ==
    /\ ema_alpha = 1
    /\ hist.prevLo = <<0>> /\ hist.prevHi = <<100 * Scale>>
    /\ hist.stats = <<0, 200>>
    /\ _hi = <<110 * Scale>>

\* a frame whose elements all have the value v
Uniform(img, v) ==
    ~img.isNone /\ ~IsEmpty(img) /\ \A i \in 1..Len(img.data) : img.data[i] = v

\* C11: degenerate-frame safety.  A uniform frame (all elements 5) normalized when
\* ScaleState is unset, or is (5, 5) as uniform frames alone leave it, does not raise,
\* yields a processed frame of the same shape that is all zeros, and leaves lo = hi = 5
\* (finite; the divisor used is 1e-6, never 0).
C11_DegenerateFrame ==
    /\ (_lo = <<>> \/ (_lo = <<5 * Scale>> /\ _hi = <<5 * Scale>>)) =>
           LET r == normalize_to_u8(ImgFlat, ema_alpha, _lo, _hi)
           IN  /\ ~r.raised
               /\ r.u8 = Array(ImgFlat.shape, <<0, 0>>)
               /\ r.lo = <<5 * Scale>> /\ r.hi = <<5 * Scale>>
               /\ Divisor(r.lo[1], r.hi[1]).num > 0
    /\ (/\ Uniform(hist.raw, 5)
        /\ hist.prevLo = <<>> \/ (hist.prevLo = <<5 * Scale>> /\ hist.prevHi = <<5 * Scale>>))
         => /\ wu8.img.shape = hist.raw.shape
            /\ \A i \in 1..Len(wu8.img.data) : wu8.img.data[i] = 0
            /\ _lo = <<5 * Scale>> /\ _hi = <<5 * Scale>>

\* the second of two uniform frames has been normalized, with the default ema_alpha
C11_Witness ==
    /\ hist.norms = 2
    /\ ema_alpha = AlphaDefault
    /\ Uniform(hist.raw, 5)
    /\ hist.prevLo = <<5 * Scale>> /\ hist.prevHi = <<5 * Scale>>
    /\ wu8 = Frame(2, Array(<<1, 2>>, <<0, 0>>))
    /\ _lo = <<5 * Scale>> /\ _hi = <<5 * Scale>>

\* C12 as claimed: the processed frame has the raw frame's shape, every element is an
\* integer in 0..255, elements at or below lo are 0 and elements at or above hi are
\* 255 (lo, hi: the ScaleState the frame was mapped with).
C12_AtOrAboveHiIs255 ==
    ~hist.raw.isNone =>
        /\ wu8.img.shape = hist.raw.shape
        /\ Len(wu8.img.data) = Len(hist.raw.data)
        /\ \A i \in 1..Len(hist.raw.data) :
               /\ wu8.img.data[i] \in 0..255
               /\ hist.raw.data[i] * Scale <= _lo[1] => wu8.img.data[i] = 0
               /\ hist.raw.data[i] * Scale >= _hi[1] => wu8.img.data[i] = 255

\* C12, amended: shape and range as claimed, elements at or below lo are 0; elements
\* at or above hi are 255 when hi - lo >= 1e-6; when hi - lo < 1e-6 the divisor is
\* 1e-6, so the elements that are 255 are those at or above lo + 1e-6 (an element
\* equal to lo = hi is 0).
C12_ShapeAndRange ==
    ~hist.raw.isNone =>
        /\ wu8.img.shape = hist.raw.shape
        /\ Len(wu8.img.data) = Len(hist.raw.data)
        /\ \A i \in 1..Len(hist.raw.data) :
               LET x == hist.raw.data[i] * Scale
                   y == wu8.img.data[i]
               IN  /\ y \in 0..255
                   /\ x <= _lo[1] => y = 0
                   /\ (~Flat(_lo[1], _hi[1]) /\ x >= _hi[1]) => y = 255
                   /\ (Flat(_lo[1], _hi[1]) /\ x - _lo[1] >= EpsCeil) => y = 255
                   /\ (Flat(_lo[1], _hi[1]) /\ x = _hi[1]) => y = 0

\* a frame normalized with the ScaleState an earlier frame seeded and its own min and
\* max moved: one element is below lo, the other above hi
C12_Witness ==
    /\ hist.raw = ImgB
    /\ hist.prevLo = <<20 * Scale>> /\ hist.prevHi = <<150 * Scale>>
    /\ ema_alpha = AlphaDefault
    /\ ImgB.data[1] * Scale < _lo[1]
    /\ ImgB.data[2] * Scale > _hi[1]
    /\ wu8.img = Array(<<1, 2>>, <<0, 255>>)

\* C13: sweep completion.  Over any sequence of step calls that return, the n-th
\* returns a frame if and only if n is a multiple of azimuth_bins and returns None
\* otherwise; right after a frame is returned col is 0, and the next call writes
\* column 0 of a fresh sweep.
C13_SweepCompletion ==
    /\ (ahist.n > 0 /\ ahist.last # "raised") =>
           /\ ahist.last = "frame" <=> ahist.n % AzimuthBins = 0
           /\ ahist.last = "none" <=> ahist.n % AzimuthBins # 0
           /\ ahist.last = "frame" => col = 0 /\ ~ahist.ret.isNone
    /\ (ahist.n > AzimuthBins /\ ahist.n % AzimuthBins = 1) =>
           /\ Len(ahist.sweep) = 1
           /\ \A r \in 1..RangeBins : buffer[r][1] = Column(ahist.sweep[1])[r]

\* call azimuth_bins + 1 has returned None after writing column 0; the frame of the
\* first sweep was returned one call earlier
C13_Witness ==
    /\ ahist.n = AzimuthBins + 1
    /\ ahist.last = "none"
    /\ col = 1
    /\ ~ahist.ret.isNone
    /\ ahist.sweep = <<Ramp(2)>>
    /\ ahist.done[1] = Ramp(1)
    /\ buffer[1][1] = 2

\* a 1-D profile of range_bins values
WellFormed(profile) ==
    ~profile.isNone /\ ndim(profile) = 1 /\ Len(profile.data) = RangeBins

\* C14: step with a malformed profile (None, empty, not a 1-D array of range_bins
\* values) is a silent no-op: nothing is raised to the caller and no such profile is
\* written to the buffer or advances the cursor.  (As claimed; step in fact raises
\* for None, an empty and a too long profile, and writes a one-value profile to
\* the whole column.)
C14_MalformedStepIsNoOp ==
    /\ ahist.last # "raised"
    /\ \A i \in 1..Len(ahist.sweep) : WellFormed(ahist.sweep[i])
    /\ \A i \in 1..Len(ahist.done) : WellFormed(ahist.done[i])

\* C15: copy-on-submit.  The frame the worker normalizes has the content the
\* producer's array had when submit was called, also when the producer has written
\* into that array after submit returned.  (As claimed; submit in fact enqueues
\* the array itself.)
C15_CopyOnSubmit ==
    (wpc = "norm" /\ wsonar.id = overwritten.id) => wsonar.img = overwritten.img

\* C16: a display-surface failure is terminal for the renderer.  Once a display
\* update was attempted on the closed window, close() has been triggered (_running
\* is False) and no later update_plot call takes a frame from out_q.  (As claimed;
\* update_plot in fact neither calls close() nor stops taking frames.)
C16_SurfaceFailureTerminal ==
    surface.failed => (~_running /\ surface.after = 0)

\* the five world names, as the docstrings of lib/worlds.py list them
FiveWorlds ==
    <<Str("PierHarbor"), Str("OpenWater"), Str("SimpleUnderwater"), Str("Dam"), Str("Rooms")>>

\* C17: World.list_worlds() returns exactly the five world names, each a str, and
\* nothing else.  (As claimed; the list in fact ends with the classmethod object
\* bound to the name list_worlds.)
C17_ListWorldsFiveNames ==
    worlds_ret # <<>> =>
        /\ worlds_ret = FiveWorlds
        /\ \A i \in 1..Len(worlds_ret) : worlds_ret[i].kind = "str"

\* C18: pipeline order.  The frames the renderer presents come in strictly
\* increasing submission order (never an older frame after a newer one, never the
\* same frame twice), and each is a frame that was submitted and that the worker
\* took and normalized before it was presented.
C18_PipelineOrder ==
    /\ \A i, j \in 1..Len(hist.presents) :
           i < j => hist.presents[i].id < hist.presents[j].id
    /\ \A i \in 1..Len(hist.presents) :
           /\ hist.presents[i].id \in 1..nsub
           /\ hist.presents[i].id \in Ids(hist.taken)
           /\ hist.presents[i].id <= hist.submitted
    /\ Len(hist.presents) <= hist.norms

\* frames 1 and 3 were presented, frame 2 was dropped on the way
C18_Witness ==
    /\ Len(hist.presents) = 2
    /\ hist.presents[1].id = 1
    /\ hist.presents[2].id = 3
    /\ mesh.data = <<0, 255>>

\* element (i, j), 1-based, of a 2-D array
At(a, i, j) == a.data[(i - 1) * a.shape[2] + j]

\* the image value of the buffer value v in range row r, given the buffer b
Pixel(b, v, r) == Level(Log1p(v, r), MatMax(LogImage(b)))

C20_CursorInvariant ==
    /\ col \in 0..(AzimuthBins - 1)
    /\ col = Len(ahist.sweep)
    /\ col = ahist.n % AzimuthBins
    /\ \A k \in 1..col : \A r \in 1..RangeBins : buffer[r][k] = Column(ahist.sweep[k])[r]

\* the second sweep is one profile short of complete
C20_Witness ==
    /\ ahist.n = 2 * AzimuthBins - 1
    /\ col = AzimuthBins - 1
    /\ Len(ahist.sweep) = AzimuthBins - 1
    /\ ahist.sweep[1] = Ramp(2)
    /\ buffer[RangeBins][1] = 2 * RangeBins
    /\ ~ahist.ret.isNone

\* a step in which an update_plot call returns with the outcome o; a call that
\* repeats the outcome of the call before it, with nothing in between, changes no
\* variable at all
Returns(o) == hist.last # o /\ hist'.last = o

\* C22: an update_plot call that passes the rate test and finds out_q empty does
\* nothing: no display update, no geometry setup, last_plot_time unchanged, the
\* frame shown before stays, and the call returns at once.
C22_EmptyUpdateIsNoOp ==
    [][Returns("update_empty") =>
          /\ ~RateLimited(clock) /\ Empty(out_q)
          /\ UNCHANGED <<in_q, out_q, _running, scaleVars, mainVars, workerVars, clock>>
          /\ hist'.presents = hist.presents
          /\ mpc' = "idle"]_vars

\* a frame was presented; a later call, past the rate limit, found out_q empty
C22_Witness ==
    /\ hist.last = "update_empty"
    /\ Len(hist.presents) = 1
    /\ initialized
    /\ mesh.data = <<0, 255>>
    /\ last_plot_time = hist.presents[1].at
    /\ clock - last_plot_time >= Period

\* C29: an update_plot call that returns early because less than 1/plot_hz has
\* passed since the last display update takes nothing from out_q, so the pending
\* frame stays available, and leaves last_plot_time, initialized and the mesh as
\* they were.
C29_RateLimitedUpdateKeepsFrame ==
    [][Returns("update_limited") =>
          /\ RateLimited(clock)
          /\ out_q' = out_q
          /\ UNCHANGED <<last_plot_time, initialized, mesh>>
          /\ UNCHANGED <<in_q, _running, scaleVars, mpc, sonar, nsub, workerVars, clock>>
          /\ hist'.presents = hist.presents]_vars

\* frame 1 is on the display, frame 2 waits in out_q, and the call just made was
\* rate-limited
C29_Witness ==
    /\ hist.last = "update_limited"
    /\ Len(hist.presents) = 1
    /\ hist.presents[1].id = 1
    /\ Ids(out_q) = {2}
    /\ clock - last_plot_time < Period

\* the fraction d = num / den is at least 1e-6 (den is Scale or EpsDen)
AtLeastEps(d) ==
    /\ d.num > 0
    /\ d.den \in {Scale, EpsDen}
    /\ d.den = Scale => d.num >= EpsCeil

\* uint8(255 * clamp(off / d, 0, 1)) for a scaled offset off and a divisor d >= 1e-6
MapWith(off, d) ==
    IF off <= 0 THEN 0
    ELSE IF d.den = Scale
         THEN IF off >= d.num THEN 255 ELSE (255 * off) \div d.num
         ELSE IF off >= EpsCeil * d.num THEN 255 ELSE (255 * off * EpsDen) \div (Scale * d.num)

\* C23: for every frame normalized, after any sequence of earlier frames, the
\* divisor used in the element mapping is at least 1e-6: a flat or collapsed scale
\* is replaced by 1e-6, the elements are mapped with that divisor, and the call
\* does not raise.
C23_DivisorAtLeastEps ==
    /\ \A img \in NormInputs :
           ~IsEmpty(img) =>
               LET r == normalize_to_u8(img, ema_alpha, _lo, _hi)
                   d == Divisor(r.lo[1], r.hi[1])
               IN  /\ ~r.raised
                   /\ AtLeastEps(d)
                   /\ \A i \in 1..Len(img.data) :
                          r.u8.data[i] = MapWith(img.data[i] * Scale - r.lo[1], d)
    /\ ~hist.raw.isNone =>
           /\ AtLeastEps(Divisor(_lo[1], _hi[1]))
           /\ \A i \in 1..Len(hist.raw.data) :
                  wu8.img.data[i] =
                      MapWith(hist.raw.data[i] * Scale - _lo[1], Divisor(_lo[1], _hi[1]))

\* with ema_alpha = 0 the scale a uniform frame seeded stays collapsed; a later
\* frame with distinct values was mapped with the divisor 1e-6
C23_Witness ==
    /\ ema_alpha = 0
    /\ _lo = <<5 * Scale>> /\ _hi = <<5 * Scale>>
    /\ hist.raw = ImgA
    /\ Divisor(_lo[1], _hi[1]) = [num |-> 1, den |-> EpsDen]
    /\ wu8.img.data = <<0, 255>>
    /\ hist.last = "call"

\* C30: for ema_alpha in [0, 1], after any sequence of non-empty frames the stored
\* bounds satisfy lo <= hi, and both lie between the smallest frame minimum and the
\* largest frame maximum seen so far.
C30_ScaleOrdered ==
    /\ (_lo = <<>>) <=> (_hi = <<>>)
    /\ (_lo = <<>>) <=> (hist.seen = <<>>)
    /\ _lo # <<>> =>
           /\ _lo[1] <= _hi[1]
           /\ hist.seen[1] * Scale <= _lo[1]
           /\ _hi[1] <= hist.seen[2] * Scale

\* three frames in, lo and hi lie strictly inside the range of values seen
C30_Witness ==
    /\ hist.norms = 3
    /\ ema_alpha = AlphaDefault
    /\ hist.seen = <<0, 200>>
    /\ _lo[1] > 0
    /\ _lo[1] < _hi[1]
    /\ _hi[1] < 200 * Scale

\* C24: ScaleState has a single writer.  Every step that changes _lo or _hi is the
\* worker's normalization step; submit, update_plot and close leave them as they
\* are, and a step of the main thread never coincides with a change of ScaleState.
C24_ScaleSingleWriter ==
    [][(_lo' # _lo \/ _hi' # _hi) =>
          /\ wpc = "norm" /\ wpc' = "odrain"
          /\ hist'.norms = hist.norms + 1
          /\ UNCHANGED <<mainVars, _running, in_q, out_q, clock>>
          /\ hist'.last = hist.last
          /\ hist'.closes = hist.closes
          /\ hist'.presents = hist.presents]_vars

\* the worker has just moved ScaleState with its second frame while the main thread
\* is inside submit
C24_Witness ==
    /\ wpc = "odrain"
    /\ mpc = "put"
    /\ hist.norms = 2
    /\ hist.prevHi = <<100 * Scale>>
    /\ _hi = <<110 * Scale>>

\* C25: one-time geometry setup.  _init_mesh runs exactly once in the lifetime of a
\* visualizer, inside the first update_plot call that obtains a processed frame; no
\* frame is presented while initialized is False and no later call runs the setup
\* again.  (As claimed; a call whose _init_mesh raises leaves initialized False,
\* and the next call that obtains a frame runs _init_mesh again.)
C25_InitMeshOnce ==
    /\ hist.inits <= 1
    /\ initialized <=> hist.inits = 1
    /\ Len(hist.presents) > 0 => initialized

\* C26: bounded overrun after close.  Once close() has set _running to False the
\* worker takes at most one more frame from in_q, updates ScaleState at most once
\* more and publishes to out_q at most once more before its loop exits.
C26_BoundedOverrun ==
    /\ hist.after.taken <= 1
    /\ hist.after.norms <= 1
    /\ hist.after.pubs <= 1
    /\ _running => hist.after = [taken |-> 0, norms |-> 0, pubs |-> 0]
    /\ (wpc \in {"norm", "odrain", "oput"} /\ hist.after.taken = 0) => hist.after.pubs = 0

\* close() came while the worker waited in get; a frame submitted after it was
\* taken, normalized and published, and then the loop ended
C26_Witness ==
    /\ ~_running
    /\ wpc = "done"
    /\ hist.after = [taken |-> 1, norms |-> 1, pubs |-> 1]
    /\ Len(hist.taken) = 1
    /\ Len(out_q) = 1

\* A frame's id is in the log of display updates
Presented(id) == \E k \in 1..Len(hist.presents) : hist.presents[k].id = id

\* C27: the newest frame is never lost.  If the submit of a frame is the last submit
\* of a frame that returns, and the worker keeps running (no close, no exception in
\* its thread), then that frame is eventually shown by update_plot.
C27_NewestFrameShown ==
    \A id \in 1..MaxFrames :
        <>[](hist.submitted = id /\ _running /\ wpc # "crashed") => <>Presented(id)

\* the first frame was superseded in a queue and the second, the newest, is shown
C27_Witness ==
    /\ hist.submitted = 2
    /\ nsub = 2
    /\ Len(hist.presents) = 1
    /\ hist.presents[1].id = 2
    /\ wpc # "crashed"

\* the buffer that holds the k-th of the profiles in column k, and nothing else
SweepMatrix(profiles) ==
    [r \in 1..RangeBins |-> [c \in 1..AzimuthBins |-> Column(profiles[c])[r]]]

\* C28: no stale columns.  The buffer is not cleared between sweeps, yet a frame
\* that step returns is the image of the azimuth_bins profiles written by the
\* azimuth_bins most recent step calls that returned, the j-th in position j: at
\* that moment the buffer holds these profiles and no value of an earlier sweep.
C28_NoStaleColumns ==
    ahist.last = "frame" =>
        /\ Len(ahist.done) = AzimuthBins
        /\ buffer = SweepMatrix(ahist.done)
        /\ ahist.ret = build_image(SweepMatrix(ahist.done))

\* the frame of the second sweep: an earlier sweep wrote a larger value than any
\* of this one, and the frame's brightest level is that of this sweep's own maximum
C28_Witness ==
    /\ ahist.last = "frame"
    /\ ahist.n = 2 * AzimuthBins
    /\ ahist.old = 2 * RangeBins
    /\ \A k \in 1..AzimuthBins : ahist.done[k] = Ramp(1)
    /\ \A k \in 1..AzimuthBins : At(ahist.ret, k, RangeBins) = 254
    /\ \A r \in 1..RangeBins, c \in 1..AzimuthBins : buffer[r][c] < ahist.old

\* C21: partial frames are never emitted.  latest_sonar_img of bluerov_test is None
\* until the first sweep is complete, and from then on the image of a complete
\* sweep of azimuth_bins profiles, also when sonar_stop_event is set in the middle
\* of a sweep: the worker then assigns at most the frame of a sweep it had already
\* completed, and the main loop is never handed anything else.
C21_NoPartialFrame ==
    /\ latest_sonar_img.isNone <=> shist.npub = 0
    /\ shist.npub <= ahist.n \div AzimuthBins
    /\ ~latest_sonar_img.isNone =>
           /\ Len(shist.sweepOf) = AzimuthBins
           /\ latest_sonar_img = build_image(SweepMatrix(shist.sweepOf))
    /\ shist.late <= 1
    /\ shist.shown.isNone \/ shist.npub > 0
    /\ (spc \in {"done", "crashed"} /\ shist.npub = 0) => latest_sonar_img.isNone

\* the worker was stopped after the first column of the second sweep: the buffer
\* is a mix of two sweeps, the shared frame is that of the first
C21_Witness ==
    /\ sonar_stop_event
    /\ spc = "done"
    /\ col = 1
    /\ ahist.n = AzimuthBins + 1
    /\ shist.npub = 1
    /\ buffer # SweepMatrix(shist.sweepOf)
    /\ latest_sonar_img = build_image(SweepMatrix(shist.sweepOf))
    /\ latest_sonar_img # build_image(buffer)

====
